---- MODULE Spec2Model ----
(***************************************************************************)
(* The multi-agent workflow of career-coach-ai: the LangGraph state graph   *)
(* built by LangGraphOrchestrator (router, four agents, router_confirmation,*)
(* human_interaction, resume_after_human, finalize_response) and the       *)
(* process_message entry point that runs it per session, with the          *)
(* interrupt before human_interaction and the resume path.                 *)
(*                                                                         *)
(* One session (thread_id) is modelled; sessions share no state.           *)
(* router_agent.py holds unresolved merge markers; the HEAD side (the JSON *)
(* classifier with needs_followup) is the one modelled.                    *)
(***************************************************************************)
EXTENDS Naturals, Sequences, FiniteSets, TLC

VARIABLES
    st,              \* the checkpointed GraphState values of the session
    has_checkpoint,  \* whether the MemorySaver holds a checkpoint for the thread
    last_node,       \* the node that wrote the checkpoint last
    next_node,       \* the node the checkpoint schedules next
    pc,              \* process_message position: idle, stream, final
    resuming,        \* first step of stream(None): the interrupt is not re-raised
    call,            \* arguments and bookkeeping of the current process_message call
    result,          \* the dict returned by the last process_message call
    classifier,      \* the classifier's answer consumed by the last router visit
    proposal,        \* whether update_profile proposed updates it did not apply, in this call
    chat_store,      \* firebase chat_history collection of the session
    calls,           \* process_message calls made so far
    chat_history,    \* the chat_history channel of the checkpoint (operator.add reducer)
    steps,           \* nodes that completed in the current process_message call
    router_visits,   \* router executions since the last fresh start
    failures,        \* the calls that raised in the current process_message call
    executed         \* the agent nodes executed since the last fresh start, in order

vars == <<st, has_checkpoint, last_node, next_node, pc, resuming, call, result,
          classifier, proposal, chat_store, calls, chat_history, steps,
          router_visits, failures, executed>>

----------------------------------------------------------------------------
(* Bounds of the model *)

\* process_message calls made on the session
MaxCalls == 2

----------------------------------------------------------------------------
(* Python values *)

\* Optional[T]: None or a value
None == <<>>
Some(x) == <<x>>
IsNone(o) == o = None
Val(o) == o[1]

\* A str whose case and surrounding whitespace matter: its lower-cased,
\* stripped core, whether it holds upper-case letters, whether it is padded.
Str(core, upper, padded) == [core |-> core, upper |-> upper, padded |-> padded]
Plain(core) == Str(core, FALSE, FALSE)
lower(s) == [s EXCEPT !.upper = FALSE]
strip(s) == [s EXCEPT !.padded = FALSE]
\* bool(s) of a str
StrTruthy(s) == s.core # "" \/ s.padded

\* Texts shown to the user: a sequence of paragraphs; "" is <<>>.
Text(t) == <<t>>
EmptyText == <<>>
BlankLine == "\n\n"

RECURSIVE join(_)
\* "\n\n".join(responses)
join(responses) ==
    IF Len(responses) = 0 THEN EmptyText
    ELSE IF Len(responses) = 1 THEN Head(responses)
    ELSE Head(responses) \o <<BlankLine>> \o join(Tail(responses))

----------------------------------------------------------------------------
(* Fixed texts of the source *)

CancelText == Text("Understood. I've cancelled that action. How else can I help you?")
CompletedText == Text("I've completed processing your request. How else can I help you?")
ReviewPrompt == Text("I've analyzed your request from multiple angles. Would you like me to continue or is this sufficient?")
ClarifyPrompt == Text("I need more information to proceed. Could you clarify your request?")
ProceedPrompt == Text("How would you like me to proceed?")
ErrorText == Text("I encountered an error processing your request. Please try again.")
UpdateFailedText == Text("I noted your information but couldn't update your profile right now.")
UpdatedText == Text("Profile Updated!")
ConfirmPrompt(message) == <<"I found new information to add to your profile. Should I update it with: ">> \o message \o <<"?">>

----------------------------------------------------------------------------
(* Inputs *)

\* user_message values of process_message
UserMessages ==
    { Plain("yes"), Str("y", TRUE, FALSE), Plain(""),
      Plain("we are hiring a data analyst") }

valid_agents == {"profile_updater", "job_fit_analyst", "content_enhancement", "career_path", "end"}

\* What self.chain.invoke gives the router: it raises, or answers text that
\* json.loads rejects, or a JSON value that is no object, or an object whose
\* "agent" is absent, not a string, or a string.
Raise == [kind |-> "raise", agent |-> None, needs_followup |-> FALSE]
Unparseable == [kind |-> "unparseable", agent |-> None, needs_followup |-> FALSE]
NotObject == [kind |-> "not_object", agent |-> None, needs_followup |-> FALSE]
AgentNotStr == [kind |-> "agent_not_str", agent |-> None, needs_followup |-> TRUE]
Answer(agent, nf) == [kind |-> "object", agent |-> agent, needs_followup |-> nf]

ClassifierOutcomes ==
    { Raise, Unparseable, NotObject, AgentNotStr, Answer(None, TRUE) }
    \cup { Answer(Some(Plain(a)), nf) : a \in valid_agents, nf \in BOOLEAN }
    \cup { Answer(Some(Str("end", TRUE, FALSE)), FALSE),
           Answer(Some(Str("profile_updater", TRUE, TRUE)), FALSE),
           Answer(Some(Plain("human_interaction")), TRUE),
           Answer(Some(Plain("")), FALSE) }

NoClassifier == [kind |-> "none", agent |-> None, needs_followup |-> FALSE]

----------------------------------------------------------------------------
(* GraphState *)

\* initial_state of a new message (chat_history, session_id and
\* user_profile_data take no part in the control flow and are left out)
initial_state(user_message) ==
    [ current_user_query |-> user_message,
      agent_type |-> "",
      next_agent |-> None,
      routing_history |-> <<>>,
      routing_decisions |-> <<>>,
      completed_agents |-> <<>>,
      router_decision |-> "",
      job_fit_analysis |-> None,
      career_path_response |-> None,
      profile_updates |-> None,
      content_enhancement_result |-> None,
      final_response |-> EmptyText,
      profile_updated |-> FALSE,
      requires_human_input |-> FALSE,
      human_input_type |-> None,
      human_input_prompt |-> None,
      human_input_received |-> None,
      pending_confirmation |-> None,
      workflow_stage |-> "processing" ]

\* bool(state.get("human_input_received"))
HasHumanInput(s) ==
    ~IsNone(s.human_input_received) /\ StrTruthy(Val(s.human_input_received))

----------------------------------------------------------------------------
(* chat_history *)

\* a message: its type and its content, a user's str or a response text
HumanMessage(content) == [ type |-> "human", query |-> content, text |-> EmptyText ]
AIMessage(content) == [ type |-> "ai", query |-> Plain(""), text |-> content ]

\* the limit process_message passes to get_chat_history
ChatHistoryLimit == 6

\* firebase get_chat_history followed by reversed(): the last limit stored
\* exchanges, oldest first
get_chat_history(store, limit) ==
    IF Len(store) <= limit THEN store
    ELSE SubSeq(store, Len(store) - limit + 1, Len(store))

RECURSIVE history_messages(_)
history_messages(chats) ==
    IF chats = <<>> THEN <<>>
    ELSE <<HumanMessage(Head(chats).message), AIMessage(Head(chats).response)>>
         \o history_messages(Tail(chats))

\* as add_chat_history, writing the exchange twice
add_chat_history_twice(store, message, response, agent_type, ok) ==
    IF ok
    THEN store \o << [ message |-> message, response |-> response,
                       agent_type |-> agent_type ],
                     [ message |-> message, response |-> response,
                       agent_type |-> agent_type ] >>
    ELSE store

\* firebase add_chat_history: the exchange is added unless the write fails,
\* which the method reports by returning False
add_chat_history(store, message, response, agent_type, ok) ==
    IF ok
    THEN Append(store, [ message |-> message, response |-> response,
                         agent_type |-> agent_type ])
    ELSE store

\* the messages list built for initial_state
messages(store, user_message) ==
    history_messages(get_chat_history(store, ChatHistoryLimit))
    \o <<HumanMessage(user_message)>>

\* The chat_history channel folds every write with operator.add. Its list
\* doubles whenever a node returns the list it was given, so the list is
\* held as the writes that built it, oldest first: Added(ms) for
\* "list + ms", Twice for "list + list".
Added(ms) == [ op |-> "add", messages |-> ms ]
Twice == [ op |-> "twice", messages |-> <<>> ]
NoHistory == <<>>

\* operator.add(h, ms) for a new list ms
add_messages(h, ms) == Append(h, Added(ms))
\* operator.add(h, h): a write of the channel's own value
add_own(h) == Append(h, Twice)

RECURSIVE ChatLen(_)
\* len() of the list
ChatLen(h) ==
    IF h = <<>> THEN 0
    ELSE LET n == ChatLen(SubSeq(h, 1, Len(h) - 1))
             w == h[Len(h)]
         IN  IF w.op = "twice" THEN n + n ELSE n + Len(w.messages)

----------------------------------------------------------------------------
(* RouterAgent.route_query *)

\* the try block: whether it raises, and what it assigns when it does not
ParseRaises(c) == c.kind \in {"raise", "unparseable", "not_object", "agent_not_str"}
ParsedAgent(c) ==
    lower(strip(IF IsNone(c.agent) THEN Plain("career_path") ELSE Val(c.agent)))

\* as AgentDecision, without the validation against valid_agents
AgentDecision_unvalidated(c) ==
    IF ParseRaises(c) THEN "career_path" ELSE ParsedAgent(c).core

\* agent_decision after the except handler and the validation
AgentDecision(c) ==
    LET agent_decision == IF ParseRaises(c) THEN Plain("career_path") ELSE ParsedAgent(c)
    IN  IF agent_decision \notin {Plain(a) : a \in valid_agents}
        THEN "career_path"
        ELSE agent_decision.core

NeedsFollowup(c) == IF ParseRaises(c) THEN FALSE ELSE c.needs_followup

\* as route_query, planning a return to the router whatever needs_followup is
route_query_always_followup(s, c) ==
    LET agent_decision == AgentDecision(c)
    IN  [ s EXCEPT
            !.router_decision = agent_decision,
            !.agent_type = IF agent_decision # "end" THEN agent_decision ELSE s.agent_type,
            !.next_agent = IF agent_decision # "end" THEN Some("router") ELSE Some("end"),
            !.routing_decisions = Append(s.routing_decisions,
                [ query |-> s.current_user_query,
                  decision |-> agent_decision,
                  needs_followup |-> NeedsFollowup(c) ]) ]

\* as route_query, planning from needs_followup alone
route_query_flag_only(s, c) ==
    LET agent_decision == AgentDecision(c)
        needs_followup == NeedsFollowup(c)
    IN  [ s EXCEPT
            !.router_decision = agent_decision,
            !.agent_type = IF agent_decision # "end" THEN agent_decision ELSE s.agent_type,
            !.next_agent = IF needs_followup THEN Some("router") ELSE Some("end"),
            !.routing_decisions = Append(s.routing_decisions,
                [ query |-> s.current_user_query,
                  decision |-> agent_decision,
                  needs_followup |-> needs_followup ]) ]

route_query(s, c) ==
    LET agent_decision == AgentDecision(c)
        needs_followup == NeedsFollowup(c)
    IN  [ s EXCEPT
            !.router_decision = agent_decision,
            !.agent_type = IF agent_decision # "end" THEN agent_decision ELSE s.agent_type,
            !.next_agent = IF needs_followup /\ agent_decision # "end"
                           THEN Some("router") ELSE Some("end"),
            !.routing_decisions = Append(s.routing_decisions,
                [ query |-> s.current_user_query,
                  decision |-> agent_decision,
                  needs_followup |-> needs_followup ]) ]

----------------------------------------------------------------------------
(* Nodes of the graph *)

\* as router_node, keeping only the record of the latest visit
router_node_single_record(s, c) ==
    LET s1 == IF HasHumanInput(s)
              THEN [ s EXCEPT !.current_user_query = Val(s.human_input_received),
                              !.human_input_received = None ]
              ELSE s
        r == route_query(s1, c)
    IN  [ r EXCEPT !.routing_history =
                << [ query |-> s1.current_user_query,
                     decision |-> r.router_decision,
                     stage |-> s1.workflow_stage ] >> ]

\* as router_node, classifying the query it finds and only dropping the
\* human input
router_node_keeps_query(s, c) ==
    LET s1 == IF HasHumanInput(s)
              THEN [ s EXCEPT !.human_input_received = None ]
              ELSE s
        r == route_query(s1, c)
    IN  [ r EXCEPT !.routing_history = Append(s1.routing_history,
                [ query |-> s1.current_user_query,
                  decision |-> r.router_decision,
                  stage |-> s1.workflow_stage ]) ]

router_node(s, c) ==
    LET s1 == IF HasHumanInput(s)
              THEN [ s EXCEPT !.current_user_query = Val(s.human_input_received),
                              !.human_input_received = None ]
              ELSE s
        r == route_query(s1, c)
    IN  [ r EXCEPT !.routing_history = Append(s1.routing_history,
                [ query |-> s1.current_user_query,
                  decision |-> r.router_decision,
                  stage |-> s1.workflow_stage ]) ]

\* as ReviewThreshold, one agent later
ReviewThreshold_one_more == 1 + 1 + 1

\* the number of completed agents from which the gate asks for a review
ReviewThreshold == 2

\* as router_confirmation_node, with the agent count tested before the
\* pending confirmation
router_confirmation_node_breaker_first(s) ==
    IF Len(s.completed_agents) >= ReviewThreshold
    THEN [ s EXCEPT !.requires_human_input = TRUE,
                    !.human_input_type = Some("review"),
                    !.human_input_prompt = Some(ReviewPrompt),
                    !.workflow_stage = "awaiting_input" ]
    ELSE IF ~IsNone(s.pending_confirmation)
    THEN [ s EXCEPT !.requires_human_input = TRUE,
                    !.human_input_type = Some("confirmation"),
                    !.workflow_stage = "awaiting_confirmation" ]
    ELSE [ s EXCEPT !.workflow_stage = "confirmed" ]

\* as router_confirmation_node, asking for a review only beyond the threshold
router_confirmation_node_late_breaker(s) ==
    IF ~IsNone(s.pending_confirmation)
    THEN [ s EXCEPT !.requires_human_input = TRUE,
                    !.human_input_type = Some("confirmation"),
                    !.workflow_stage = "awaiting_confirmation" ]
    ELSE IF Len(s.completed_agents) > ReviewThreshold
    THEN [ s EXCEPT !.requires_human_input = TRUE,
                    !.human_input_type = Some("review"),
                    !.human_input_prompt = Some(ReviewPrompt),
                    !.workflow_stage = "awaiting_input" ]
    ELSE [ s EXCEPT !.workflow_stage = "confirmed" ]

router_confirmation_node(s) ==
    IF ~IsNone(s.pending_confirmation)
    THEN [ s EXCEPT !.requires_human_input = TRUE,
                    !.human_input_type = Some("confirmation"),
                    !.workflow_stage = "awaiting_confirmation" ]
    ELSE IF Len(s.completed_agents) >= ReviewThreshold
    THEN [ s EXCEPT !.requires_human_input = TRUE,
                    !.human_input_type = Some("review"),
                    !.human_input_prompt = Some(ReviewPrompt),
                    !.workflow_stage = "awaiting_input" ]
    ELSE [ s EXCEPT !.workflow_stage = "confirmed" ]

\* bool(state.get("human_input_prompt"))
HasPrompt(s) == ~IsNone(s.human_input_prompt) /\ Val(s.human_input_prompt) # EmptyText

human_interaction_node(s) ==
    LET s1 ==
          IF HasPrompt(s) THEN s
          ELSE IF s.human_input_type = Some("confirmation")
          THEN IF ~IsNone(s.pending_confirmation)
               THEN [ s EXCEPT !.human_input_prompt = Some(Val(s.pending_confirmation).prompt) ]
               ELSE s
          ELSE IF s.human_input_type = Some("clarification")
          THEN [ s EXCEPT !.human_input_prompt = Some(ClarifyPrompt) ]
          ELSE [ s EXCEPT !.human_input_prompt = Some(ProceedPrompt) ]
    IN  [ s1 EXCEPT !.workflow_stage = "awaiting_input" ]

Affirmatives == { Plain("yes"), Plain("confirm"), Plain("proceed"), Plain("y") }

\* as IsAffirmative, without lower()
IsAffirmative_case_sensitive(human_input) == human_input \in Affirmatives

\* human_input.lower() in ["yes", "confirm", "proceed", "y"]
IsAffirmative(human_input) == lower(human_input) \in Affirmatives

\* as resume_after_human_node, clearing the human-interaction fields only
\* after a confirmation
resume_after_human_node_keeps_pending(s) ==
    LET human_input == Val(s.human_input_received)
    IN  IF s.human_input_type = Some("confirmation")
        THEN LET s1 == IF IsAffirmative(human_input)
                       THEN [ s EXCEPT
                                !.workflow_stage = "confirmed",
                                !.profile_updated =
                                    IF Val(s.pending_confirmation).action = "profile_update"
                                    THEN TRUE ELSE s.profile_updated ]
                       ELSE [ s EXCEPT !.workflow_stage = "cancelled",
                                       !.final_response = CancelText ]
             IN  [ s1 EXCEPT !.requires_human_input = FALSE,
                             !.human_input_type = None,
                             !.human_input_prompt = None,
                             !.pending_confirmation = None ]
        ELSE [ s EXCEPT !.requires_human_input = FALSE ]

\* as resume_after_human_node, starting the list of completed agents again
resume_after_human_node_resets_agents(s) ==
    LET human_input == Val(s.human_input_received)
        s1 ==
          IF s.human_input_type = Some("confirmation")
          THEN IF IsAffirmative(human_input)
               THEN [ s EXCEPT
                        !.workflow_stage = "confirmed",
                        !.profile_updated =
                            IF Val(s.pending_confirmation).action = "profile_update"
                            THEN TRUE ELSE s.profile_updated ]
               ELSE [ s EXCEPT !.workflow_stage = "cancelled",
                               !.final_response = CancelText ]
          ELSE s
    IN  [ s1 EXCEPT !.requires_human_input = FALSE,
                    !.human_input_type = None,
                    !.human_input_prompt = None,
                    !.pending_confirmation = None,
                    !.completed_agents = <<>> ]

resume_after_human_node(s) ==
    LET human_input == Val(s.human_input_received)
        s1 ==
          IF s.human_input_type = Some("confirmation")
          THEN IF IsAffirmative(human_input)
               THEN [ s EXCEPT
                        !.workflow_stage = "confirmed",
                        !.profile_updated =
                            IF Val(s.pending_confirmation).action = "profile_update"
                            THEN TRUE ELSE s.profile_updated ]
               ELSE [ s EXCEPT !.workflow_stage = "cancelled",
                               !.final_response = CancelText ]
          ELSE s
    IN  [ s1 EXCEPT !.requires_human_input = FALSE,
                    !.human_input_type = None,
                    !.human_input_prompt = None,
                    !.pending_confirmation = None ]

\* as finalize_response_node, adding the compiled texts to the response
\* already there
finalize_response_node_accumulating(s) ==
    LET r1 == IF ~IsNone(s.profile_updates) /\ Val(s.profile_updates).message # EmptyText
              THEN <<Val(s.profile_updates).message>> ELSE <<>>
        r2 == IF ~IsNone(s.job_fit_analysis) /\ ~IsNone(Val(s.job_fit_analysis).analysis)
                 /\ Val(Val(s.job_fit_analysis).analysis) # EmptyText
              THEN <<Val(Val(s.job_fit_analysis).analysis)>> ELSE <<>>
        r3 == IF ~IsNone(s.career_path_response) /\ ~IsNone(Val(s.career_path_response).guidance)
                 /\ Val(Val(s.career_path_response).guidance) # EmptyText
              THEN <<Val(Val(s.career_path_response).guidance)>> ELSE <<>>
        r4 == IF ~IsNone(s.content_enhancement_result)
                 /\ Val(s.content_enhancement_result) # EmptyText
              THEN <<Val(s.content_enhancement_result)>> ELSE <<>>
        responses == r1 \o r2 \o r3 \o r4
    IN  [ s EXCEPT
            !.final_response = IF responses # <<>>
                               THEN join(<<s.final_response>> \o responses)
                               ELSE IF s.final_response = EmptyText THEN CompletedText
                               ELSE s.final_response,
            !.workflow_stage = "completed" ]

\* as finalize_response_node, leaving workflow_stage as it finds it
finalize_response_node_keeps_stage(s) ==
    LET r1 == IF ~IsNone(s.profile_updates) /\ Val(s.profile_updates).message # EmptyText
              THEN <<Val(s.profile_updates).message>> ELSE <<>>
        r2 == IF ~IsNone(s.job_fit_analysis) /\ ~IsNone(Val(s.job_fit_analysis).analysis)
                 /\ Val(Val(s.job_fit_analysis).analysis) # EmptyText
              THEN <<Val(Val(s.job_fit_analysis).analysis)>> ELSE <<>>
        r3 == IF ~IsNone(s.career_path_response) /\ ~IsNone(Val(s.career_path_response).guidance)
                 /\ Val(Val(s.career_path_response).guidance) # EmptyText
              THEN <<Val(Val(s.career_path_response).guidance)>> ELSE <<>>
        r4 == IF ~IsNone(s.content_enhancement_result)
                 /\ Val(s.content_enhancement_result) # EmptyText
              THEN <<Val(s.content_enhancement_result)>> ELSE <<>>
        responses == r1 \o r2 \o r3 \o r4
    IN  [ s EXCEPT
            !.final_response = IF responses # <<>> THEN join(responses)
                               ELSE IF s.final_response = EmptyText THEN CompletedText
                               ELSE s.final_response ]

finalize_response_node(s) ==
    LET r1 == IF ~IsNone(s.profile_updates) /\ Val(s.profile_updates).message # EmptyText
              THEN <<Val(s.profile_updates).message>> ELSE <<>>
        r2 == IF ~IsNone(s.job_fit_analysis) /\ ~IsNone(Val(s.job_fit_analysis).analysis)
                 /\ Val(Val(s.job_fit_analysis).analysis) # EmptyText
              THEN <<Val(Val(s.job_fit_analysis).analysis)>> ELSE <<>>
        r3 == IF ~IsNone(s.career_path_response) /\ ~IsNone(Val(s.career_path_response).guidance)
                 /\ Val(Val(s.career_path_response).guidance) # EmptyText
              THEN <<Val(Val(s.career_path_response).guidance)>> ELSE <<>>
        r4 == IF ~IsNone(s.content_enhancement_result)
                 /\ Val(s.content_enhancement_result) # EmptyText
              THEN <<Val(s.content_enhancement_result)>> ELSE <<>>
        responses == r1 \o r2 \o r3 \o r4
    IN  [ s EXCEPT
            !.final_response = IF responses # <<>> THEN join(responses)
                               ELSE IF s.final_response = EmptyText THEN CompletedText
                               ELSE s.final_response,
            !.workflow_stage = "completed" ]

----------------------------------------------------------------------------
(* Conditional edges *)

AgentNodes == {"profile_updater", "job_fit_analyst", "career_path", "content_enhancement"}

\* as route_from_router, without the test for a cancelled turn
route_from_router_ignores_cancel(s) ==
    IF s.requires_human_input THEN "human_interaction"
    ELSE IF s.router_decision = "end" THEN "finalize_response"
    ELSE IF s.router_decision \in AgentNodes THEN s.router_decision
    ELSE "finalize_response"

route_from_router(s) ==
    IF s.requires_human_input THEN "human_interaction"
    ELSE IF s.router_decision = "end" \/ s.workflow_stage = "cancelled" THEN "finalize_response"
    ELSE IF s.router_decision \in AgentNodes THEN s.router_decision
    ELSE "finalize_response"

\* as route_from_confirmation, without the requires_human_input test
route_from_confirmation_plan_only(s) ==
    IF s.next_agent = Some("router") THEN "router" ELSE "finalize_response"

route_from_confirmation(s) ==
    IF s.requires_human_input THEN "human_interaction"
    ELSE IF s.next_agent = Some("router") THEN "router"
    ELSE "finalize_response"

\* as check_human_input, leaving the node whatever it received
check_human_input_always_resume(s) == "resume_after_human"

check_human_input(s) ==
    IF HasHumanInput(s) THEN "resume_after_human" ELSE "human_interaction"

----------------------------------------------------------------------------
(* The four agents *)

\* What ProfileUpdater's chain and the store do: updates found and written
\* (with or without skills), found but the store write failed, none found,
\* or the chain raised.
ProfileOutcomes == {"applied_skills", "applied_other", "store_failed", "no_updates", "raise"}

update_profile(s, o) ==
    LET s1 ==
          IF o \in {"applied_skills", "applied_other"}
          THEN [ s EXCEPT
                   !.profile_updated = TRUE,
                   !.profile_updates = Some([ updates |-> o, message |-> UpdatedText ]),
                   !.next_agent = IF o = "applied_skills" THEN Some("router") ELSE s.next_agent ]
          ELSE IF o = "store_failed"
          THEN [ s EXCEPT
                   !.profile_updates = Some([ updates |-> "", message |-> UpdateFailedText ]) ]
          ELSE [ s EXCEPT !.profile_updates = None, !.next_agent = Some("router") ]
    IN  [ s1 EXCEPT !.agent_type = "profile_updater" ]

\* the wrapper's test: result.get("profile_updates") and not result.get("profile_updated")
NeedsConfirmation(r) == ~IsNone(r.profile_updates) /\ ~r.profile_updated

\* as profile_updater_node, marking the proposed updates applied instead of
\* asking for a confirmation
profile_updater_node_auto_apply(s, o) ==
    LET r == update_profile(s, o)
        s1 == IF NeedsConfirmation(r) THEN [ r EXCEPT !.profile_updated = TRUE ] ELSE r
    IN  [ s1 EXCEPT !.completed_agents = Append(s1.completed_agents, "profile_updater") ]

profile_updater_node(s, o) ==
    LET r == update_profile(s, o)
        s1 == IF NeedsConfirmation(r)
              THEN [ r EXCEPT
                       !.pending_confirmation = Some(
                           [ action |-> "profile_update",
                             updates |-> Val(r.profile_updates),
                             prompt |-> ConfirmPrompt(Val(r.profile_updates).message) ]),
                       !.requires_human_input = TRUE ]
              ELSE r
    IN  [ s1 EXCEPT !.completed_agents = Append(s1.completed_agents, "profile_updater") ]

JobFitAskText == Text("I'd be happy to analyze a job fit for you! Please paste the job description")
JobFitErrorText == Text("I encountered an issue analyzing the job fit.")
JobFitResultText == Text("# Job Fit Analysis Results")
GuidanceText == Text("career guidance")
CareerFallbackText == Text("career guidance fallback")
EnhancementText == Text("content enhancement suggestions")
EnhancementFallbackText == Text("content enhancement fallback")

\* _extract_job_description: the query itself when it names a job indicator
\* ("hiring", ...), "" for a short query without one
JobQueries == { "we are hiring a data analyst" }
extract_job_description(user_query) ==
    IF lower(user_query).core \in JobQueries THEN Some(user_query) ELSE None

JobFitOutcomes == {"analysis", "raise"}

analyze_job_fit(s, o) ==
    IF IsNone(extract_job_description(s.current_user_query))
    THEN [ s EXCEPT !.final_response = JobFitAskText, !.agent_type = "job_fit_analyst" ]
    ELSE IF o = "analysis"
    THEN [ s EXCEPT
             \* the parsed JobFitAnalysis: score, summary, ...; it has no "analysis" key
             !.job_fit_analysis = Some([ summary |-> Text("fit summary"), analysis |-> None ]),
             !.final_response = JobFitResultText,
             !.agent_type = "job_fit_analyst" ]
    ELSE [ s EXCEPT !.final_response = JobFitErrorText, !.agent_type = "job_fit_analyst" ]

job_fit_analyst_node(s, o) ==
    LET r == analyze_job_fit(s, o)
    IN  [ r EXCEPT !.completed_agents = Append(r.completed_agents, "job_fit_analyst") ]

CareerOutcomes == {"guidance", "raise"}

provide_career_guidance(s, o) ==
    IF o = "guidance"
    THEN [ s EXCEPT
             !.final_response = GuidanceText,
             !.agent_type = "career_path",
             \* analysis, trajectory, upskilling_areas; it has no "guidance" key
             !.career_path_response = Some([ analysis |-> GuidanceText, guidance |-> None ]) ]
    ELSE [ s EXCEPT !.final_response = CareerFallbackText, !.agent_type = "career_path" ]

\* as career_path_node, recording the agent only when its call succeeded
career_path_node_counts_success(s, o) ==
    LET r == provide_career_guidance(s, o)
    IN  IF o = "guidance"
        THEN [ r EXCEPT !.completed_agents = Append(r.completed_agents, "career_path") ]
        ELSE r

career_path_node(s, o) ==
    LET r == provide_career_guidance(s, o)
    IN  [ r EXCEPT !.completed_agents = Append(r.completed_agents, "career_path") ]

EnhanceOutcomes == {"enhancement", "raise"}

enhance_content(s, o) ==
    IF o = "enhancement"
    THEN [ s EXCEPT
             !.final_response = EnhancementText,
             !.agent_type = "content_enhancement",
             !.content_enhancement_result = Some(EnhancementText) ]
    ELSE [ s EXCEPT !.final_response = EnhancementFallbackText,
                    !.agent_type = "content_enhancement" ]

content_enhancement_node(s, o) ==
    LET r == enhance_content(s, o)
    IN  [ r EXCEPT !.completed_agents = Append(r.completed_agents, "content_enhancement") ]

----------------------------------------------------------------------------
(* process_message *)

\* The arguments of a call, whether it took the resume branch, and what the
\* checkpoint held when it came in: the interrupt it answers ("none" when the
\* checkpoint is absent or not waiting for input), the action of the pending
\* confirmation, the lengths of routing_history and completed_agents,
\* whether there was a checkpoint, its current_user_query,
\* human_input_received, human_input_type and pending_confirmation, the
\* router visits made before the call, and the stored chat history.
NoCall == [ message |-> Plain(""), resume_from_interrupt |-> FALSE, resumed |-> FALSE,
            answering |-> "none", pending_action |-> "none",
            history0 |-> 0, agents0 |-> 0,
            has0 |-> FALSE, query0 |-> Plain(""), received0 |-> None,
            visits0 |-> 0, type0 |-> None, pending0 |-> None, store0 |-> <<>> ]

NoResult == [ kind |-> "none", message |-> None, agent_type |-> "",
              requires_input |-> None, input_type |-> None,
              workflow_stage |-> "", profile_updated |-> None ]

\* as error_result, reporting the stage of a finished turn
error_result_completed ==
    [ kind |-> "error", message |-> Some(ErrorText), agent_type |-> "error",
      requires_input |-> None, input_type |-> None,
      workflow_stage |-> "completed", profile_updated |-> None ]

\* the dict the except handler returns
error_result ==
    [ kind |-> "error", message |-> Some(ErrorText), agent_type |-> "error",
      requires_input |-> None, input_type |-> None,
      workflow_stage |-> "error", profile_updated |-> None ]

\* as TakesResume, trusting the caller's flag
TakesResume_flag_only(resume_from_interrupt, has, s) == resume_from_interrupt

\* the test that takes the resume branch: resume_from_interrupt and
\* current_state.values.get("requires_human_input")
TakesResume(resume_from_interrupt, has, s) ==
    resume_from_interrupt /\ has /\ s.requires_human_input

\* update_state writes as the node that wrote last, whose conditional edge
\* is evaluated on the updated values
branch_of(node, s) ==
    IF node = "router_confirmation" THEN route_from_confirmation(s)
    ELSE IF node = "human_interaction" THEN check_human_input(s)
    ELSE IF node \in AgentNodes THEN "router_confirmation"
    ELSE route_from_router(s)

Init ==
    /\ st = initial_state(Plain(""))
    /\ has_checkpoint = FALSE
    /\ last_node = "none"
    /\ next_node = "none"
    /\ pc = "idle"
    /\ resuming = FALSE
    /\ call = NoCall
    /\ result = NoResult
    /\ classifier = NoClassifier
    /\ proposal = FALSE
    /\ chat_store = <<>>
    /\ calls = 0
    /\ chat_history = NoHistory
    /\ steps = 0
    /\ router_visits = 0
    /\ failures = {}
    /\ executed = <<>>

\* lines 305-367 up to the first step of graph.stream
ProcessMessage(user_message, resume_from_interrupt) ==
    /\ pc = "idle"
    /\ calls < MaxCalls
    /\ calls' = calls + 1
    /\ LET resumed == TakesResume(resume_from_interrupt, has_checkpoint, st)
       IN  /\ call' = [ message |-> user_message,
                        resume_from_interrupt |-> resume_from_interrupt,
                        resumed |-> resumed,
                        answering |->
                            IF has_checkpoint /\ st.requires_human_input
                            THEN IF IsNone(st.human_input_type) THEN "untyped"
                                 ELSE Val(st.human_input_type)
                            ELSE "none",
                        pending_action |->
                            IF has_checkpoint /\ ~IsNone(st.pending_confirmation)
                            THEN Val(st.pending_confirmation).action ELSE "none",
                        history0 |-> IF resumed THEN Len(st.routing_history) ELSE 0,
                        agents0 |-> IF resumed THEN Len(st.completed_agents) ELSE 0,
                        has0 |-> has_checkpoint,
                        query0 |-> st.current_user_query,
                        received0 |-> st.human_input_received,
                        visits0 |-> IF resumed THEN router_visits ELSE 0,
                        type0 |-> st.human_input_type,
                        pending0 |-> st.pending_confirmation,
                        store0 |-> chat_store ]
           /\ IF resumed
              THEN \* update_state writes every value of the checkpoint back
                   LET s1 == [ st EXCEPT !.human_input_received = Some(user_message) ]
                   IN  /\ st' = s1
                       /\ chat_history' = add_own(chat_history)
                       /\ next_node' = branch_of(last_node, s1)
                       /\ resuming' = TRUE
                       /\ UNCHANGED <<last_node, router_visits, executed>>
              ELSE \* stream(initial_state) writes the input over the checkpoint;
                   \* get_chat_history answers [] when the store read fails
                   /\ st' = initial_state(user_message)
                   /\ \E read_ok \in BOOLEAN :
                         chat_history' = add_messages(chat_history,
                             messages(IF read_ok THEN chat_store ELSE <<>>, user_message))
                   /\ next_node' = "router"
                   /\ resuming' = FALSE
                   /\ last_node' = "__start__"
                   /\ router_visits' = 0
                   /\ executed' = <<>>
    /\ has_checkpoint' = TRUE
    /\ pc' = "stream"
    /\ result' = NoResult
    /\ classifier' = NoClassifier
    /\ proposal' = FALSE
    /\ steps' = 0
    /\ failures' = {}
    /\ UNCHANGED chat_store

\* one step of graph.stream: node has run and returned s2; the checkpoint is
\* written and the node's edge chooses the next node. interrupt_before stops
\* the stream in front of human_interaction; END stops it after finalize.
Step(node, s2, n) ==
    /\ st' = s2
    /\ last_node' = node
    /\ next_node' = n
    /\ pc' = IF n \in {"human_interaction", "END"} THEN "final" ELSE "stream"
    /\ resuming' = FALSE
    \* the node returned the whole state, chat_history included
    /\ chat_history' = add_own(chat_history)
    /\ steps' = steps + 1
    /\ UNCHANGED <<has_checkpoint, call, result, chat_store, calls>>

At(node) == pc = "stream" /\ next_node = node

Router ==
    /\ At("router")
    /\ \E c \in ClassifierOutcomes :
          LET s2 == router_node(st, c)
          IN  /\ Step("router", s2, route_from_router(s2))
              /\ classifier' = c
              /\ failures' = IF ParseRaises(c) THEN failures \cup {"classifier"}
                             ELSE failures
    /\ router_visits' = router_visits + 1
    /\ UNCHANGED <<proposal, executed>>

ProfileUpdater ==
    /\ At("profile_updater")
    /\ \E o \in ProfileOutcomes :
          /\ Step("profile_updater", profile_updater_node(st, o), "router_confirmation")
          /\ proposal' = NeedsConfirmation(update_profile(st, o))
          /\ failures' = IF o = "raise" THEN failures \cup {"agent"}
                         ELSE IF o = "store_failed" THEN failures \cup {"store"}
                         ELSE failures
    /\ classifier' = NoClassifier
    /\ executed' = Append(executed, "profile_updater")
    /\ UNCHANGED router_visits

JobFitAnalyst ==
    /\ At("job_fit_analyst")
    /\ \E o \in JobFitOutcomes :
          /\ Step("job_fit_analyst", job_fit_analyst_node(st, o), "router_confirmation")
          /\ failures' = IF o = "raise" THEN failures \cup {"agent"} ELSE failures
    /\ classifier' = NoClassifier
    /\ executed' = Append(executed, "job_fit_analyst")
    /\ UNCHANGED <<proposal, router_visits>>

CareerPath ==
    /\ At("career_path")
    /\ \E o \in CareerOutcomes :
          /\ Step("career_path", career_path_node(st, o), "router_confirmation")
          /\ failures' = IF o = "raise" THEN failures \cup {"agent"} ELSE failures
    /\ classifier' = NoClassifier
    /\ executed' = Append(executed, "career_path")
    /\ UNCHANGED <<proposal, router_visits>>

ContentEnhancement ==
    /\ At("content_enhancement")
    /\ \E o \in EnhanceOutcomes :
          /\ Step("content_enhancement", content_enhancement_node(st, o), "router_confirmation")
          /\ failures' = IF o = "raise" THEN failures \cup {"agent"} ELSE failures
    /\ classifier' = NoClassifier
    /\ executed' = Append(executed, "content_enhancement")
    /\ UNCHANGED <<proposal, router_visits>>

RouterConfirmation ==
    /\ At("router_confirmation")
    /\ LET s2 == router_confirmation_node(st)
       IN  Step("router_confirmation", s2, route_from_confirmation(s2))
    /\ classifier' = NoClassifier
    /\ UNCHANGED <<proposal, router_visits, failures, executed>>

\* runs only as the first step of a resumed stream
HumanInteraction ==
    /\ At("human_interaction")
    /\ resuming
    /\ LET s2 == human_interaction_node(st)
       IN  Step("human_interaction", s2, check_human_input(s2))
    /\ classifier' = NoClassifier
    /\ UNCHANGED <<proposal, router_visits, failures, executed>>

ResumeAfterHuman ==
    /\ At("resume_after_human")
    /\ Step("resume_after_human", resume_after_human_node(st), "router")
    /\ classifier' = NoClassifier
    /\ UNCHANGED <<proposal, router_visits, failures, executed>>

FinalizeResponse ==
    /\ At("finalize_response")
    /\ Step("finalize_response", finalize_response_node(st), "END")
    /\ classifier' = NoClassifier
    /\ UNCHANGED <<proposal, router_visits, failures, executed>>

\* lines 369-401: read the final state, answer the caller
Return ==
    /\ pc = "final"
    /\ IF st.requires_human_input
       THEN /\ result' = [ kind |-> "interrupt",
                           message |-> st.human_input_prompt,
                           agent_type |-> "human_interaction",
                           requires_input |-> Some(TRUE),
                           input_type |-> st.human_input_type,
                           workflow_stage |-> "awaiting_input",
                           profile_updated |-> None ]
            /\ UNCHANGED <<chat_store, failures>>
       ELSE /\ result' = [ kind |-> "final",
                           message |-> Some(st.final_response),
                           agent_type |-> st.agent_type,
                           requires_input |-> None,
                           input_type |-> None,
                           workflow_stage |-> st.workflow_stage,
                           profile_updated |-> Some(st.profile_updated) ]
            /\ IF st.workflow_stage = "completed"
               THEN \E write_ok \in BOOLEAN :
                      /\ chat_store' = add_chat_history(chat_store, call.message,
                                            st.final_response, st.agent_type, write_ok)
                      /\ failures' = IF write_ok THEN failures
                                     ELSE failures \cup {"chat_store"}
               ELSE UNCHANGED <<chat_store, failures>>
    /\ pc' = "idle"
    /\ classifier' = NoClassifier
    /\ UNCHANGED <<st, has_checkpoint, last_node, next_node, resuming, call, proposal, calls,
                   chat_history, steps, router_visits, executed>>

\* lines 403-412: the step graph.stream is about to run raises; its writes
\* are not applied, the checkpoint stays as the last completed step left it,
\* and the handler answers the caller
StreamRaises ==
    /\ pc = "stream"
    /\ result' = error_result
    /\ failures' = failures \cup {"graph"}
    /\ pc' = "idle"
    /\ resuming' = FALSE
    /\ classifier' = NoClassifier
    /\ UNCHANGED <<st, has_checkpoint, last_node, next_node, call, proposal, chat_store,
                   calls, chat_history, steps, router_visits, executed>>

Next ==
    \/ \E m \in UserMessages, r \in BOOLEAN : ProcessMessage(m, r)
    \/ Router
    \/ ProfileUpdater
    \/ JobFitAnalyst
    \/ CareerPath
    \/ ContentEnhancement
    \/ RouterConfirmation
    \/ HumanInteraction
    \/ ResumeAfterHuman
    \/ FinalizeResponse
    \/ Return
    \/ StreamRaises

Spec == Init /\ [][Next]_vars

\* the steps graph.stream and the return path take without waiting for
\* anything: every node, and the answer to the caller
Run ==
    \/ Router
    \/ ProfileUpdater
    \/ JobFitAnalyst
    \/ CareerPath
    \/ ContentEnhancement
    \/ RouterConfirmation
    \/ HumanInteraction
    \/ ResumeAfterHuman
    \/ FinalizeResponse
    \/ Return

\* the messages of the calls whose termination is checked: an empty one,
\* which leaves an interrupt waiting, and a query, which rejects a pending
\* confirmation and resumes a review
LiveMessages == { Plain(""), Plain("we are hiring a data analyst") }

\* the calls in which the graph runtime itself does not raise
LiveNext ==
    \/ \E m \in LiveMessages, r \in BOOLEAN : ProcessMessage(m, r)
    \/ Run

\* process_message is synchronous: once called, the stream loop keeps
\* running the scheduled node until it stops
LiveSpec == Init /\ [][LiveNext]_vars /\ WF_vars(Run)

----------------------------------------------------------------------------
(* Properties *)

\* a process_message call has returned, with any result, and no other has
\* started
Answered == pc = "idle" /\ result.kind # "none"

\* a process_message call has returned what its graph run produced, and no
\* other has started
Returned == pc = "idle" /\ result.kind \in {"interrupt", "final"}

\* C1: a fresh call in which update_profile returned profile_updates with
\* profile_updated false ends suspended in front of human_interaction: the
\* checkpoint holds pending_confirmation and the call returns
\* requires_input = true with input_type = "confirmation".
C1_FreshProposalSuspends ==
    (Returned /\ ~call.resumed /\ proposal) =>
        /\ has_checkpoint
        /\ ~IsNone(st.pending_confirmation)
        /\ last_node = "router_confirmation"
        /\ next_node = "human_interaction"
        /\ result.requires_input = Some(TRUE)
        /\ result.input_type = Some("confirmation")

C1_Witness ==
    /\ Returned /\ ~call.resumed /\ proposal
    /\ st.router_decision = "profile_updater"
    /\ result.kind = "interrupt"

\* C2: a call that resumes a profile-update confirmation with "yes" returns
\* profile_updated = true and workflow_stage = "completed", whatever the
\* router selects for the resumed input.
C2_ResumeYesCompletes ==
    ( /\ Returned /\ call.resumed
      /\ call.answering = "confirmation" /\ call.pending_action = "profile_update"
      /\ call.message = Plain("yes") ) =>
        /\ result.profile_updated = Some(TRUE)
        /\ result.workflow_stage = "completed"

\* C3: a call that answers a pending confirmation with a non-affirmative
\* input returns the fixed cancellation text as its message.
C3_CancelTextReturned ==
    ( /\ Returned /\ call.resumed
      /\ call.answering = "confirmation"
      /\ StrTruthy(call.message) /\ lower(call.message) \notin Affirmatives ) =>
        result.message = Some(CancelText)

\* C4: a call with resume = true on a session whose checkpoint is absent or
\* not waiting for input takes the fresh path: it starts at the router from
\* initial_state of its message, which becomes the query the router records,
\* and it returns no error result unless the graph run itself raised.
C4_ResumeWithoutInterruptIsFresh ==
    (calls > 0 /\ call.resume_from_interrupt /\ call.answering = "none") =>
        /\ ~call.resumed
        /\ call.history0 = 0
        /\ last_node = "__start__" =>
              /\ st = initial_state(call.message) /\ next_node = "router"
              /\ pc = "stream" \/ "graph" \in failures
        /\ last_node # "__start__" =>
              (st.routing_history # <<>> /\ st.routing_history[1].query = call.message)
        /\ result.kind = "error" => "graph" \in failures

C4_Witness ==
    /\ Returned /\ call.resume_from_interrupt /\ call.answering = "none"
    /\ calls = 2 /\ Len(chat_store) = 2
    /\ st.routing_history[1].query = call.message

\* C5: a fresh call whose first routing is career_path with needs_followup
\* false, and in which no confirmation is proposed, makes one router visit
\* and one agent execution, goes from the gate to finalize_response and
\* returns workflow_stage = "completed" without an interrupt.
C5_Precondition ==
    /\ ~call.resumed /\ ~proposal
    /\ Len(st.routing_decisions) >= 1
    /\ st.routing_decisions[1].decision = "career_path"
    /\ ~st.routing_decisions[1].needs_followup

C5_SingleCareerPathPass ==
    /\ (C5_Precondition /\ last_node = "router_confirmation") =>
            next_node = "finalize_response"
    /\ (C5_Precondition /\ Returned) =>
            /\ Len(st.routing_history) = 1
            /\ st.completed_agents = <<"career_path">>
            /\ last_node = "finalize_response"
            /\ ~st.requires_human_input
            /\ result.workflow_stage = "completed"
            /\ result.requires_input # Some(TRUE)

C5_Witness ==
    /\ C5_Precondition /\ Returned
    /\ result.workflow_stage = "completed"
    /\ st.completed_agents = <<"career_path">>

\* the tags the router may decide on, as the str values they are
ValidTags == { Plain(a) : a \in valid_agents }

\* C6 as stated: after a router visit router_decision is the classifier's
\* tag when that tag is one of the five valid values, career_path otherwise.
C6_DecisionIsClassifierTag ==
    (last_node = "router" /\ classifier.kind # "none") =>
        st.router_decision =
            IF classifier.kind = "object" /\ ~IsNone(classifier.agent)
               /\ Val(classifier.agent) \in ValidTags
            THEN Val(classifier.agent).core
            ELSE "career_path"

\* C6 amended: after a router visit, for every classifier outcome,
\* router_decision is one of the five valid values: the classifier's tag
\* with surrounding whitespace removed and in lower case when that is one of
\* them, career_path otherwise (a failed call, unparseable output, a value
\* that is no object or whose tag is absent or no string).
C6_DecisionIsNormalisedTag ==
    (last_node = "router" /\ classifier.kind # "none") =>
        /\ st.router_decision \in valid_agents
        /\ st.router_decision =
            IF classifier.kind = "object" /\ ~IsNone(classifier.agent)
               /\ Val(classifier.agent).core \in valid_agents
            THEN Val(classifier.agent).core
            ELSE "career_path"

C6_Witness ==
    /\ last_node = "router"
    /\ classifier = Answer(Some(Str("profile_updater", TRUE, TRUE)), FALSE)
    /\ st.router_decision = "profile_updater"

\* C7: the gate's decision: with a pending confirmation, human_interaction
\* with human_input_type confirmation and workflow_stage
\* awaiting_confirmation; otherwise, with at least 2 completed agents,
\* human_interaction with human_input_type review; otherwise router when
\* next_agent is router and finalize_response when it is not.
C7_GateDecision ==
    last_node = "router_confirmation" =>
        IF ~IsNone(st.pending_confirmation)
        THEN /\ next_node = "human_interaction"
             /\ st.human_input_type = Some("confirmation")
             /\ st.workflow_stage = "awaiting_confirmation"
        ELSE IF Len(st.completed_agents) >= 2
        THEN /\ next_node = "human_interaction"
             /\ st.human_input_type = Some("review")
        ELSE IF st.next_agent = Some("router")
        THEN next_node = "router"
        ELSE next_node = "finalize_response"

C7_Witness ==
    /\ last_node = "router_confirmation"
    /\ ~IsNone(st.pending_confirmation)
    /\ Len(st.completed_agents) >= 2
    /\ st.human_input_type = Some("confirmation")
    /\ next_node = "human_interaction"

\* completed_agents holds 2 distinct entries
TwoDistinctAgents(s) ==
    Cardinality({ s.completed_agents[i] : i \in 1..Len(s.completed_agents) }) >= 2

\* C8 as stated: with 2 distinct completed agents the gate routes to
\* human_interaction with human_input_type review, pending confirmation or
\* not.
C8_BreakerAlwaysReview ==
    (last_node = "router_confirmation" /\ TwoDistinctAgents(st)) =>
        /\ next_node = "human_interaction"
        /\ st.human_input_type = Some("review")

\* C8 amended: with 2 distinct completed agents the gate always routes to
\* human_interaction; human_input_type is review unless an agent has set a
\* pending confirmation, and confirmation when one has.
C8_BreakerAlwaysInterrupts ==
    (last_node = "router_confirmation" /\ TwoDistinctAgents(st)) =>
        /\ next_node = "human_interaction"
        /\ st.requires_human_input
        /\ IsNone(st.pending_confirmation) => st.human_input_type = Some("review")
        /\ ~IsNone(st.pending_confirmation) => st.human_input_type = Some("confirmation")

C8_Witness ==
    /\ last_node = "router_confirmation" /\ TwoDistinctAgents(st)
    /\ IsNone(st.pending_confirmation)
    /\ st.human_input_type = Some("review")
    /\ pc = "final"

\* C9: when update_profile returns profile_updates with profile_updated
\* false, the profile-updater wrapper leaves requires_human_input true and a
\* pending_confirmation of action profile_update that carries the proposed
\* updates and a prompt, and profile_updated stays false.
C9_WrapperAsksConfirmation ==
    (last_node = "profile_updater" /\ proposal) =>
        /\ st.requires_human_input
        /\ ~IsNone(st.pending_confirmation)
        /\ Val(st.pending_confirmation).action = "profile_update"
        /\ Val(st.pending_confirmation).updates = Val(st.profile_updates)
        /\ Val(st.pending_confirmation).prompt # EmptyText
        /\ ~st.profile_updated

C9_Witness ==
    /\ last_node = "profile_updater" /\ proposal
    /\ pc = "stream" /\ next_node = "router_confirmation"
    /\ ~IsNone(st.pending_confirmation)

C11_HistoryCountsRouterVisits ==
    /\ Len(st.routing_history) = router_visits
    /\ Len(st.routing_decisions) = router_visits
    /\ \A i \in 1..Len(st.routing_history) :
          /\ DOMAIN st.routing_history[i] = {"query", "decision", "stage"}
          /\ st.routing_history[i].query = st.routing_decisions[i].query
          /\ st.routing_history[i].decision = st.routing_decisions[i].decision
    /\ last_node = "router" =>
          /\ st.routing_history[router_visits].query = st.current_user_query
          /\ st.routing_history[router_visits].decision = st.router_decision

C11_Witness ==
    /\ Returned /\ call.resumed
    /\ router_visits = 3 /\ Len(st.routing_history) = 3
    /\ st.routing_history[3].query = call.message
    /\ st.routing_history[1].query # call.message

\* the texts of the populated output slots, in the order profile-update
\* message, job-fit analysis, career-path guidance, content enhancement
SlotTexts(s) ==
    (IF ~IsNone(s.profile_updates) /\ Val(s.profile_updates).message # EmptyText
     THEN <<Val(s.profile_updates).message>> ELSE <<>>)
    \o (IF ~IsNone(s.job_fit_analysis) THEN <<JobFitResultText>> ELSE <<>>)
    \o (IF ~IsNone(s.career_path_response)
        THEN <<Val(s.career_path_response).analysis>> ELSE <<>>)
    \o (IF ~IsNone(s.content_enhancement_result)
           /\ Val(s.content_enhancement_result) # EmptyText
        THEN <<Val(s.content_enhancement_result)>> ELSE <<>>)

\* C12: after finalize_response, final_response is the texts of all
\* populated output slots in the fixed order, joined by a blank line, and it
\* is not empty when no slot is populated.
C12_FinalizeJoinsAllSlots ==
    last_node = "finalize_response" =>
        IF SlotTexts(st) # <<>>
        THEN st.final_response = join(SlotTexts(st))
        ELSE st.final_response # EmptyText

\* C13: finalize_response applied to a state it produced changes nothing:
\* final_response and workflow_stage stay as they are; and on every state
\* of the graph, applying it twice gives what applying it once gives.
C13_FinalizerIdempotent ==
    /\ finalize_response_node(finalize_response_node(st)) = finalize_response_node(st)
    /\ last_node = "finalize_response" =>
          /\ finalize_response_node(st).final_response = st.final_response
          /\ finalize_response_node(st).workflow_stage = st.workflow_stage

C13_Witness ==
    /\ last_node = "finalize_response"
    /\ st.final_response = CompletedText
    /\ SlotTexts(st) = <<>>

\* the call returned with the graph stopped in front of human_interaction
ReturnedSuspended ==
    /\ next_node = "human_interaction"
    /\ st.requires_human_input
    /\ result.requires_input = Some(TRUE)

\* the call returned after finalize_response ran to END
ReturnedFinalized ==
    /\ next_node = "END" /\ last_node = "finalize_response"
    /\ result.workflow_stage = "completed"
    /\ result.requires_input # Some(TRUE)

\* C14 as stated: every call that has returned either is suspended in front
\* of human_interaction, with requires_human_input persisted and
\* requires_input = true in the result, or has passed finalize_response and
\* reports workflow_stage = completed.
C14_ReturnsSuspendedOrFinalized ==
    Answered => (ReturnedSuspended \/ ReturnedFinalized)

\* C14 amended: every call that returns what its graph run produced is in
\* exactly one of the two situations; the only other return is the error
\* result of a graph run that raised.
C14_GraphResultSuspendedOrFinalized ==
    /\ Returned => /\ ReturnedSuspended \/ ReturnedFinalized
                   /\ ~(ReturnedSuspended /\ ReturnedFinalized)
    /\ (Answered /\ ~Returned) => (result.kind = "error" /\ "graph" \in failures)

C14_Witness ==
    /\ Returned /\ call.resumed
    /\ last_node = "human_interaction" /\ ReturnedSuspended

\* C15 as stated: a call in which any call raised (the classifier, an
\* agent's chain, the store or the graph run) returns the generic error
\* result.
C15_AnyRaiseYieldsError ==
    (Answered /\ failures # {}) =>
        (result.agent_type = "error" /\ result.workflow_stage = "error")

\* C15 amended: every call returns a result; it is the generic error result
\* (agent_type error, workflow_stage error, the fixed message) exactly when
\* the graph run raised. A classifier, agent or store call that raises is
\* absorbed where it is made and the call returns what the graph produced.
C15_OnlyGraphRaiseYieldsError ==
    Answered =>
        IF "graph" \in failures
        THEN /\ result.kind = "error"
             /\ result.agent_type = "error"
             /\ result.workflow_stage = "error"
             /\ result.message = Some(ErrorText)
        ELSE /\ result.kind \in {"interrupt", "final"}
             /\ result.agent_type # "error"
             /\ result.workflow_stage # "error"

C15_Witness ==
    /\ Answered /\ call.resumed
    /\ failures = {"graph"} /\ steps = 2
    /\ result.workflow_stage = "error"

\* C16: after a call that returned the error result before any node of it
\* completed, the checkpoint is as it was before the call: present or
\* absent as before, with the same current_user_query and
\* human_input_received.
C16_FailureLeavesCheckpoint ==
    (Answered /\ result.kind = "error" /\ steps = 0) =>
        /\ has_checkpoint = call.has0
        /\ st.current_user_query = call.query0
        /\ st.human_input_received = call.received0

\* C17: a call that takes the fresh path starts from initial_state of its
\* message with chat_history the last ChatHistoryLimit stored exchanges
\* followed by the new message, whatever the checkpoint held before.
C17_FreshStartFromArguments ==
    (~call.resumed /\ last_node = "__start__") =>
        /\ st = initial_state(call.message)
        /\ chat_history = add_messages(NoHistory, messages(chat_store, call.message))

\* C18: in every checkpoint pending_confirmation is set exactly when
\* requires_human_input is true and human_input_type is confirmation.
C18_PendingIffConfirmation ==
    has_checkpoint =>
        ( ~IsNone(st.pending_confirmation)
          <=> (st.requires_human_input /\ st.human_input_type = Some("confirmation")) )

\* C19: a step of any node other than finalize_response and
\* resume_after_human leaves final_response as it was.
C19_OnlyFinalizerWritesResponse ==
    [][ (steps' = steps + 1 /\ last_node' \notin {"finalize_response", "resume_after_human"})
        => st'.final_response = st.final_response ]_vars

\* C20: profile_updated is never true in a turn in which no confirmation
\* has been answered: during and after a call that took the fresh path.
C20_UpdatedOnlyAfterConfirmation ==
    ~call.resumed => ~st.profile_updated

\* C21: every process_message call returns, and before it does it has run
\* at most 2 agent nodes and visited the router at most 2 times.
C21_CallTerminates ==
    /\ [](/\ Len(executed) - call.agents0 <= 2
          /\ router_visits - call.visits0 <= 2)
    /\ (pc # "idle") ~> (pc = "idle")

C21_Witness ==
    /\ Returned /\ ~call.resumed
    /\ Len(executed) = 2 /\ router_visits = 2
    /\ result.input_type = Some("review")

\* C22 as stated: after a router visit next_agent is router when the
\* classifier answered needs_followup = true and end when it did not,
\* whatever router_decision is.
C22_NextAgentFollowsFlag ==
    (last_node = "router" /\ classifier.kind # "none") =>
        st.next_agent = IF classifier.needs_followup THEN Some("router") ELSE Some("end")

\* C22 amended: after a router visit next_agent is router when the
\* classifier's answer was parsed, carried needs_followup = true, and
\* router_decision is not end; it is end in every other case, among them a
\* decision of end with needs_followup = true and an answer whose parsing
\* raised.
C22_NextAgentFollowsFlagUnlessEnd ==
    (last_node = "router" /\ classifier.kind # "none") =>
        st.next_agent =
            IF classifier.kind = "object" /\ classifier.needs_followup
               /\ st.router_decision # "end"
            THEN Some("router") ELSE Some("end")

C22_Witness ==
    /\ last_node = "router"
    /\ classifier = Answer(Some(Plain("end")), TRUE)
    /\ st.router_decision = "end"
    /\ st.next_agent = Some("end")

\* C23: a router visit that finds human_input_received makes it the
\* current_user_query and clears it, and the records the visit adds to
\* routing_decisions (taken at classification) and to routing_history carry
\* that input as their query; a visit that finds none leaves
\* current_user_query and human_input_received as they are.
C23_RouterTakesHumanInput ==
    [][ router_visits' = router_visits + 1 =>
          IF HasHumanInput(st)
          THEN /\ st'.current_user_query = Val(st.human_input_received)
               /\ IsNone(st'.human_input_received)
               /\ st'.routing_decisions[Len(st'.routing_decisions)].query
                      = Val(st.human_input_received)
               /\ st'.routing_history[Len(st'.routing_history)].query
                      = Val(st.human_input_received)
          ELSE /\ st'.current_user_query = st.current_user_query
               /\ st'.human_input_received = st.human_input_received ]_vars

C23_Witness ==
    /\ last_node = "router" /\ call.resumed
    /\ router_visits = call.visits0 + 1
    /\ call.query0 # call.message
    /\ st.current_user_query = call.message
    /\ IsNone(st.human_input_received)

\* C24: once resume_after_human has run, whatever the interrupt's type and
\* the input, requires_human_input is false, human_input_type,
\* human_input_prompt and pending_confirmation are None, and the router is
\* the next node.
C24_ResumeClearsInteraction ==
    last_node = "resume_after_human" =>
        /\ ~st.requires_human_input
        /\ IsNone(st.human_input_type)
        /\ IsNone(st.human_input_prompt)
        /\ IsNone(st.pending_confirmation)
        /\ next_node = "router"

C24_Witness ==
    /\ last_node = "resume_after_human"
    /\ call.answering = "review"
    /\ ~IsNone(call.type0)
    /\ IsNone(st.human_input_type) /\ IsNone(st.human_input_prompt)
    /\ pc = "stream"

\* C25: completed_agents is the sequence of the agent nodes executed since
\* the turn's fresh start, one entry per execution in execution order,
\* whether or not the agent's call raised, and across suspend and resume.
C25_CompletedAgentsAreExecutions ==
    /\ st.completed_agents = executed
    /\ last_node \in AgentNodes =>
          /\ Len(st.completed_agents) >= 1
          /\ st.completed_agents[Len(st.completed_agents)] = last_node

C25_Witness ==
    /\ Returned /\ call.resumed
    /\ call.agents0 = 2 /\ Len(executed) = 3
    /\ "agent" \in failures
    /\ st.completed_agents[3] = "career_path"

\* C26: a resumed call that answers a turn suspended in front of
\* human_interaction (for a confirmation or a review) with an empty input
\* stops there again: it returns requires_input = true, and
\* requires_human_input, human_input_type and pending_confirmation are what
\* they were before the call; from there the edge of human_interaction leads
\* to resume_after_human for a non-empty input and back to human_interaction
\* for an empty one. resume_after_human runs only in a resumed call whose
\* input is non-empty.
C26_EmptyResumeSuspendsAgain ==
    /\ (Returned /\ call.resumed /\ call.answering \in {"confirmation", "review"}
          /\ ~StrTruthy(call.message)) =>
          /\ result.kind = "interrupt"
          /\ result.requires_input = Some(TRUE)
          /\ last_node = "human_interaction" /\ next_node = "human_interaction"
          /\ st.requires_human_input
          /\ st.human_input_type = call.type0
          /\ st.pending_confirmation = call.pending0
          /\ \A m \in UserMessages :
                branch_of(last_node, [ st EXCEPT !.human_input_received = Some(m) ])
                    = IF StrTruthy(m) THEN "resume_after_human" ELSE "human_interaction"
    /\ (last_node = "resume_after_human" \/ next_node = "resume_after_human") =>
          /\ call.resumed
          /\ StrTruthy(call.message)
          /\ st.human_input_received = Some(call.message)

C26_Witness ==
    /\ Returned /\ call.resumed /\ call.message = Plain("")
    /\ call.answering = "confirmation"
    /\ last_node = "human_interaction"
    /\ result.requires_input = Some(TRUE)
    /\ st.pending_confirmation = call.pending0 /\ ~IsNone(call.pending0)

\* C27: whenever a call returns suspended, the checkpoint has
\* workflow_stage = awaiting_input and a non-empty human_input_prompt, and
\* the message returned is that prompt.
C27_SuspendedHasPrompt ==
    (Returned /\ result.kind = "interrupt") =>
        /\ st.workflow_stage = "awaiting_input"
        /\ HasPrompt(st)
        /\ result.message = st.human_input_prompt

\* C28: workflow_stage is cancelled only in a resumed call that answers a
\* pending confirmation with an input that is not affirmative, between
\* resume_after_human and finalize_response; the router visited in that
\* state routes to finalize_response whatever it decided, and the call
\* returns after exactly one router visit with no agent node executed.
C28_CancelledGoesToFinalize ==
    /\ st.workflow_stage = "cancelled" =>
          /\ call.resumed /\ call.answering = "confirmation"
          /\ StrTruthy(call.message) /\ ~IsAffirmative(call.message)
          /\ last_node \in {"resume_after_human", "router"}
          /\ last_node = "resume_after_human" => next_node = "router"
          /\ last_node = "router" => next_node = "finalize_response"
          /\ Len(executed) = call.agents0
    /\ (Returned /\ call.resumed /\ call.answering = "confirmation"
          /\ StrTruthy(call.message) /\ ~IsAffirmative(call.message)) =>
          /\ last_node = "finalize_response"
          /\ router_visits = call.visits0 + 1
          /\ Len(executed) = call.agents0
          /\ result.workflow_stage = "completed"

C28_Witness ==
    /\ Returned /\ call.resumed /\ call.answering = "confirmation"
    /\ ~IsAffirmative(call.message)
    /\ st.router_decision \in AgentNodes
    /\ last_node = "finalize_response"
    /\ router_visits = call.visits0 + 1
    /\ Len(executed) = call.agents0

\* the exchange a completing call hands to the store
C29_Exchange ==
    [ message |-> call.message, response |-> st.final_response,
      agent_type |-> st.agent_type ]

\* C29 as stated: a call that ends with workflow_stage = completed has added
\* exactly one exchange, its user_message with the final response, to the
\* stored chat history; a call that is running, or that returned suspended
\* or with the error result, has added nothing.
C29_CompletedCallStoresExchange ==
    /\ pc # "idle" => chat_store = call.store0
    /\ Answered =>
          chat_store = IF result.workflow_stage = "completed"
                       THEN Append(call.store0, C29_Exchange)
                       ELSE call.store0

\* C29 amended: a call that ends with workflow_stage = completed has handed
\* exactly one exchange to the store, which holds it unless the write
\* failed; the failure is not reported and the stored history is then as it
\* was. A call that is running, or that returned suspended or with the error
\* result, has added nothing.
C29_CompletedCallStoresUnlessWriteFails ==
    /\ pc # "idle" => chat_store = call.store0
    /\ Answered =>
          chat_store = IF result.workflow_stage = "completed" /\ "chat_store" \notin failures
                       THEN Append(call.store0, C29_Exchange)
                       ELSE call.store0
    /\ "chat_store" \in failures => (Answered /\ result.workflow_stage = "completed")

C29_Witness ==
    /\ Answered /\ call.resumed
    /\ result.workflow_stage = "completed"
    /\ Len(chat_store) = Len(call.store0) + 1
    /\ chat_store[Len(chat_store)].message = call.message
    /\ call.message # call.query0

\* C30 as stated: a resumed call of a session that suspended with at least
\* 2 completed agents keeps them, suspends for a review whenever it runs an
\* agent, and passes finalize_response only with router_decision = end.
C30_ResumedAlwaysReviewed ==
    /\ call.resumed => Len(st.completed_agents) >= call.agents0
    /\ (Returned /\ call.resumed /\ call.agents0 >= ReviewThreshold) =>
          /\ Len(executed) > call.agents0 =>
                (result.kind = "interrupt" /\ result.input_type = Some("review"))
          /\ last_node = "finalize_response" => st.router_decision = "end"

\* C30 amended: a resumed call of such a session keeps the completed agents;
\* whenever it runs an agent it suspends again, for a review, or for a
\* confirmation when the agent left one pending; it passes
\* finalize_response only with router_decision = end or after the rejection
\* of a pending confirmation.
C30_ResumedSuspendsAgain ==
    /\ call.resumed => Len(st.completed_agents) >= call.agents0
    /\ (Returned /\ call.resumed /\ call.agents0 >= ReviewThreshold) =>
          /\ Len(executed) > call.agents0 =>
                /\ result.kind = "interrupt"
                /\ result.input_type = IF IsNone(st.pending_confirmation)
                                       THEN Some("review") ELSE Some("confirmation")
          /\ last_node = "finalize_response" =>
                \/ st.router_decision = "end"
                \/ /\ call.answering = "confirmation"
                   /\ ~IsAffirmative(call.message)

C30_Witness ==
    /\ Returned /\ call.resumed
    /\ call.agents0 = 2 /\ Len(st.completed_agents) = 3
    /\ "agent" \notin failures
    /\ result.input_type = Some("review")

====
